---- MODULE Spec2Model ----
(***************************************************************************)
(* The Gmail and GitHub tool functions of app/jarvis/tools as a state      *)
(* machine.  A tool invocation runs in a slot p; every request it sends to *)
(* a remote API is one atomic step with that API, and the Python between   *)
(* two requests belongs to the step of the request that follows it.  The   *)
(* local files the tools read (the Gmail token, credentials.json, the      *)
(* GitHub credentials) and the remote state the requests act on (mailbox,  *)
(* repositories, one repository file) are the shared state.                *)
(***************************************************************************)
EXTENDS Integers, Sequences, FiniteSets, TLC

\* ---------------------------------------------------------------- bounds
NumInv == 2        \* processes calling the tools
MaxCalls == 2      \* tool invocations in one behaviour
MaxItems == 2      \* longest list a response carries

Procs == 1..NumInv
MsgIds == {1, 2}   \* the message ids of the mailbox
Contents == {1, 2} \* the file contents pushed
RepoNames == {1, 2}
Paths == {0, 1}    \* scan_repository's path: 0 is the empty string

\* ------------------------------------------------- Python and JSON values
\* None, and every value Python's truth test takes for false in its place
\* (a missing key read with .get, null, the empty string).
None == 0

EmptyObj == [k \in {} |-> None]

\* dict.get(k, d)
Get(o, k, d) == IF k \in DOMAIN o THEN o[k] ELSE d

\* An element of a JSON list, or the value of a key: a JSON object o, or
\* something that is no object (null, a number, a string).
Item(o) == [isObj |-> TRUE, o |-> o]
NonObj == [isObj |-> FALSE, o |-> EmptyObj]

\* A response body as response.json() sees it: t is "list" (items),
\* "object" (items[1]), "truthy" or "falsy" (a scalar), or "invalid" (no JSON:
\* json() raises).
Json(t, items) == [t |-> t, items |-> items]
JList(items) == Json("list", items)
JObj(o) == Json("object", <<Item(o)>>)
Invalid == Json("invalid", <<>>)

\* Python's truth test, as `if not repos` applies it to a decoded body.
Truthy(j) ==
    CASE j.t = "list" -> j.items # <<>>
      [] j.t = "object" -> DOMAIN j.items[1].o # {}
      [] j.t = "truthy" -> TRUE
      [] OTHER -> FALSE

SeqsUpTo(S, n) == UNION {[1..k -> S] : k \in 0..n}

\* An HTTP exchange of the requests library: it raised, or it answered.
RaiseResp == [kind |-> "raise", status |-> 0, body |-> Invalid]
Resp(status, body) == [kind |-> "resp", status |-> status, body |-> body]
ErrBody == JObj([message |-> 1])

\* One request as the invocation issued it: endpoint, the id or path it
\* names, the sha it carried (PUT), and what came back.
Req(ep, id, sha, resp) == [ep |-> ep, id |-> id, sha |-> sha, resp |-> resp]

\* ------------------------------------------------------ the tools' results
\* The dictionary a tool returns: status, message (n is the count the message
\* quotes), and the payload list ("emails", "repositories", "contents", or
\* the one "email" / "repository" / "commit" / "message_id").
Ret(status, message, n, payload) ==
    [status |-> status, message |-> message, n |-> n, payload |-> payload]

\* An exception leaving the code where a result was expected.
Raised == Ret("raised", "", 0, <<>>)
NoResult == Ret("none", "", 0, <<>>)

\* What one run of a tool's code did: its result and the requests it issued,
\* in order.
Out(result, reqs) == [result |-> result, reqs |-> reqs]

\* A tool with no try around its body.
CatchMutant(out, message) == out

\* try: ... except Exception as e: return {"status": "error", "message": ...}

Catch(out, message) ==
    IF out.result.status = "raised"
    THEN Out(Ret("error", message, 0, <<>>), out.reqs)
    ELSE out

\* ------------------------------------------------------------------ state
VARIABLES
    tokenFile,        \* ~/.credentials/gmail_token.json
    credentialsJson,  \* whether credentials.json exists
    githubFile,       \* ~/.credentials/github_token.json
    mailbox,          \* remote: where each message of the mailbox is
    sent,             \* remote: messages sent
    repos,            \* remote: names of the repositories created
    remoteFile,       \* remote: the content of the one file pushed to, or NoFile
    changed,          \* remote: the processes since whose GET the file has changed
    concurrent,       \* whether processes run side by side
    calls,            \* invocations started
    tool, arg,        \* per slot: the tool running and its arguments
    pc,               \* per slot: "idle", a tool's next request, or "done"
    loc,              \* per slot: the tool's local variables between requests
    auth,             \* per slot: what authentication returned
    reqs,             \* per slot: the requests issued, in order
    result            \* per slot: the dictionary returned

vars == <<tokenFile, credentialsJson, githubFile, mailbox, sent, repos,
          remoteFile, changed, concurrent, calls, tool, arg, pc, loc, auth, reqs, result>>

localFiles == <<tokenFile, credentialsJson, githubFile>>
remote == <<mailbox, sent, repos, remoteFile, changed>>

NoFile == 0
NoArg == [id |-> 0, trash |-> TRUE]
NoLoc == [messages |-> <<>>, emails |-> <<>>, sha |-> None]

GmailTools == {"list_emails", "read_email", "send_email", "delete_email"}
GithubTools == {"list_repositories", "create_repository", "scan_repository",
                "push_to_repository"}

\* ----------------------------------------------------- GitHub credentials
\* The credentials file: absent, unreadable (no JSON, or JSON that is no
\* object), or a JSON object whose username and token may be missing or empty.
GithubFiles ==
    {[kind |-> k, username |-> None, token |-> None] : k \in {"absent", "corrupt"}}
    \cup {[kind |-> "json", username |-> u, token |-> t] : u \in {None, 1}, t \in {None, 1}}

get_github_auth(file) ==
    IF file.kind = "json" THEN <<file.username, file.token>> ELSE <<None, None>>

NoHeaders == [ok |-> FALSE, token |-> None]

\* get_github_headers checking the username only.
get_github_headersMutant(file) ==
    LET a == get_github_auth(file)
    IN  IF a[1] = None THEN NoHeaders ELSE [ok |-> TRUE, token |-> a[2]]

get_github_headers(file) ==
    LET a == get_github_auth(file)
    IN  IF a[1] = None \/ a[2] = None THEN NoHeaders ELSE [ok |-> TRUE, token |-> a[2]]

AuthFailGithub == "Failed to authenticate with GitHub. Please check credentials."
ApiError == "GitHub API error: {status_code} - {text}"

\* -------------------------------------------------- GitHub: what it answers
RepoObjs == {[id |-> 1, name |-> 1, html_url |-> 1, private |-> 1], [id |-> 2]}
ContentObjs == {[name |-> 1, path |-> 1, type |-> 1, html_url |-> 1], [name |-> 2]}

\* A request that raises, and an answer that is neither 200 nor 201 (the code
\* treats every such status alike).
Failures == {RaiseResp, Resp(500, ErrBody)}

OddBodies == {JObj(EmptyObj), Json("truthy", <<>>), Json("falsy", <<>>), Invalid}

ListResponses(objs) ==
    Failures
    \cup {Resp(200, JList(l)) : l \in SeqsUpTo({Item(o) : o \in objs} \cup {NonObj}, MaxItems)}
    \cup {Resp(200, b) : b \in OddBodies \cup {ErrBody}}

ScanResponses ==
    ListResponses(ContentObjs) \cup {Resp(200, JObj(o)) : o \in ContentObjs}

\* The blob sha GitHub reports for a file: a hash of its content.
ShaOf(c) == 1 + ((7 * c) % 61)

FileObj(c) == [name |-> 1, path |-> 1, type |-> 1, sha |-> ShaOf(c)]

\* GET /repos/{repo}/contents/{path}: the file's object with its current sha
\* when it exists, 404 when it does not; or a failure, or a 200 that is not a
\* file's object (a directory listing, a body with no sha).
ContentsGetResponses(f) ==
    Failures
    \cup (IF f = NoFile THEN {Resp(404, ErrBody)} ELSE {Resp(200, JObj(FileObj(f)))})
    \cup {Resp(200, b) : b \in {JList(<<Item([name |-> 1])>>), JObj([name |-> 1])}}

CommitBodies ==
    {JObj([commit |-> Item([sha |-> 1, html_url |-> 1])]),
     JObj([commit |-> NonObj]),
     JObj([message |-> 1]),
     Invalid}

\* PUT /repos/{repo}/contents/{path}: the remote writes the file only when the
\* sha sent is the file's current sha (no sha for a file that does not exist).
\* The outcomes are pairs of the response and the file afterwards; a write
\* whose response is lost raises at the caller with the file written.
PutAccepts(f, sha) ==
    IF f = NoFile THEN sha = None ELSE sha = ShaOf(f)

PutOutcomes(f, sha, content) ==
    {[resp |-> r, file |-> f] : r \in Failures}
    \cup (IF PutAccepts(f, sha)
          THEN {[resp |-> r, file |-> content] :
                    r \in {RaiseResp}
                          \cup {Resp(IF f = NoFile THEN 201 ELSE 200, b) : b \in CommitBodies}}
          ELSE {[resp |-> Resp(IF sha = None THEN 422 ELSE 409, ErrBody), file |-> f]})

\* POST /user/repos: creates the repository unless the name is taken.
PostOutcomes(rs, name) ==
    {[resp |-> r, repos |-> rs] : r \in Failures}
    \cup (IF name \in rs
          THEN {[resp |-> Resp(422, ErrBody), repos |-> rs]}
          ELSE {[resp |-> r, repos |-> rs \cup {name}] :
                    r \in {RaiseResp}
                          \cup {Resp(201, b) : b \in {JObj([id |-> 1, name |-> name]),
                                                      JList(<<>>), Invalid}}})

\* ------------------------------------------------------- GitHub: the tools
\* FormatRepo reading the key "url", which the API does not send.
FormatRepoMutant(repo) ==
    [id |-> Get(repo, "id", None), name |-> Get(repo, "name", None),
     full_name |-> Get(repo, "full_name", None),
     description |-> Get(repo, "description", None),
     url |-> Get(repo, "url", None), private |-> Get(repo, "private", None),
     created_at |-> Get(repo, "created_at", None),
     updated_at |-> Get(repo, "updated_at", None),
     language |-> Get(repo, "language", None)]

FormatRepo(repo) ==
    [id |-> Get(repo, "id", None), name |-> Get(repo, "name", None),
     full_name |-> Get(repo, "full_name", None),
     description |-> Get(repo, "description", None),
     url |-> Get(repo, "html_url", None), private |-> Get(repo, "private", None),
     created_at |-> Get(repo, "created_at", None),
     updated_at |-> Get(repo, "updated_at", None),
     language |-> Get(repo, "language", None)]

FormatContent(item) ==
    [name |-> Get(item, "name", None), path |-> Get(item, "path", None),
     type |-> Get(item, "type", None), size |-> Get(item, "size", None),
     url |-> Get(item, "html_url", None)]

FormatRepos(items) == [i \in 1..Len(items) |-> FormatRepo(items[i].o)]
FormatContents(items) == [i \in 1..Len(items) |-> FormatContent(items[i].o)]

\* `for x in body: x.get(...)` goes through when body is a list of objects;
\* a dict iterates its keys, a string its characters, a number not at all,
\* and .get on any of those raises.
AllObjects(body) ==
    body.t = "list" /\ \A i \in 1..Len(body.items) : body.items[i].isObj

list_repositories_run(headers, resp) ==
    LET q == <<Req("GET /user/repos", 0, None, resp)>>
    IN  IF ~headers.ok THEN Out(Ret("error", AuthFailGithub, 0, <<>>), <<>>)
        ELSE IF resp.kind = "raise" THEN Out(Raised, q)
        ELSE IF resp.status # 200 THEN Out(Ret("error", ApiError, 0, <<>>), q)
        ELSE IF resp.body.t = "invalid" THEN Out(Raised, q)
        ELSE IF ~Truthy(resp.body)
             THEN Out(Ret("success", "No repositories found.", 0, <<>>), q)
        ELSE IF ~AllObjects(resp.body) THEN Out(Raised, q)
        ELSE LET formatted_repos == FormatRepos(resp.body.items)
             IN  Out(Ret("success", "Found {n} repositories.",
                         Len(formatted_repos), formatted_repos), q)

create_repository_run(headers, name, resp) ==
    LET q == <<Req("POST /user/repos", name, None, resp)>>
    IN  IF ~headers.ok THEN Out(Ret("error", AuthFailGithub, 0, <<>>), <<>>)
        ELSE IF resp.kind = "raise" THEN Out(Raised, q)
        ELSE IF resp.status \notin {200, 201}
             THEN Out(Ret("error", ApiError, 0, <<>>), q)
        ELSE IF resp.body.t # "object" THEN Out(Raised, q)
        ELSE LET repo == resp.body.items[1].o
             IN  Out(Ret("success", "Repository '{name}' created successfully.", 0,
                         <<[id |-> Get(repo, "id", None),
                            name |-> Get(repo, "name", None),
                            full_name |-> Get(repo, "full_name", None),
                            description |-> Get(repo, "description", None),
                            url |-> Get(repo, "html_url", None),
                            clone_url |-> Get(repo, "clone_url", None),
                            private |-> Get(repo, "private", None)]>>), q)

scan_repository_run(headers, path, resp) ==
    LET q == <<Req("GET contents", path, None, resp)>>
    IN  IF ~headers.ok THEN Out(Ret("error", AuthFailGithub, 0, <<>>), <<>>)
        ELSE IF resp.kind = "raise" THEN Out(Raised, q)
        ELSE IF resp.status # 200 THEN Out(Ret("error", ApiError, 0, <<>>), q)
        ELSE IF resp.body.t = "invalid" THEN Out(Raised, q)
        ELSE IF ~Truthy(resp.body)
             THEN Out(Ret("success", "No contents found.", 0, <<>>), q)
        ELSE IF resp.body.t = "list" /\ ~AllObjects(resp.body) THEN Out(Raised, q)
        ELSE IF resp.body.t \notin {"list", "object"} THEN Out(Raised, q)
        ELSE LET formatted_contents == FormatContents(resp.body.items)
             IN  Out(Ret("success", "Found {n} items in repository.",
                         Len(formatted_contents), formatted_contents), q)

\* push_get_run giving up on a GET that answers neither 200 nor 404.
push_get_runMutant(headers, resp) ==
    LET q == <<Req("GET contents", 1, None, resp)>>
    IN  IF ~headers.ok
        THEN [out |-> Out(Ret("error", AuthFailGithub, 0, <<>>), <<>>), sha |-> None]
        ELSE IF resp.kind = "raise" THEN [out |-> Out(Raised, q), sha |-> None]
        ELSE IF resp.status \notin {200, 404}
             THEN [out |-> Out(Ret("error", ApiError, 0, <<>>), q), sha |-> None]
        ELSE IF resp.status # 200 THEN [out |-> Out(NoResult, q), sha |-> None]
        ELSE IF resp.body.t # "object" THEN [out |-> Out(Raised, q), sha |-> None]
        ELSE [out |-> Out(NoResult, q),
              sha |-> Get(resp.body.items[1].o, "sha", None)]

\* push_to_repository up to its PUT: the GET and the sha read from it.  The
\* result is NoResult when the code goes on to the PUT.
push_get_run(headers, resp) ==
    LET q == <<Req("GET contents", 1, None, resp)>>
    IN  IF ~headers.ok
        THEN [out |-> Out(Ret("error", AuthFailGithub, 0, <<>>), <<>>), sha |-> None]
        ELSE IF resp.kind = "raise" THEN [out |-> Out(Raised, q), sha |-> None]
        ELSE IF resp.status # 200 THEN [out |-> Out(NoResult, q), sha |-> None]
        ELSE IF resp.body.t # "object" THEN [out |-> Out(Raised, q), sha |-> None]
        ELSE [out |-> Out(NoResult, q),
              sha |-> Get(resp.body.items[1].o, "sha", None)]

\* A PUT that never carries the sha.
PutShaMutant(sha) == None

\* data["sha"] is set only `if sha:`.
PutSha(sha) == IF sha # None THEN sha ELSE None

push_put_run(sha, resp) ==
    LET q == <<Req("PUT contents", 1, PutSha(sha), resp)>>
    IN  IF resp.kind = "raise" THEN Out(Raised, q)
        ELSE IF resp.status \notin {200, 201}
             THEN Out(Ret("error", ApiError, 0, <<>>), q)
        ELSE IF resp.body.t # "object" THEN Out(Raised, q)
        ELSE LET commit == Get(resp.body.items[1].o, "commit", Item(EmptyObj))
             IN  IF ~commit.isObj THEN Out(Raised, q)
                 ELSE Out(Ret("success", "File '{file_path}' pushed to repository successfully.",
                              0, <<[sha |-> Get(commit.o, "sha", None),
                                    url |-> Get(commit.o, "html_url", None)]>>), q)

\* ------------------------------------------------------ Gmail credentials
\* The token file as get_gmail_service finds it: absent; "valid" (creds.valid);
\* "expired" (expired, with a refresh token); "norefresh" (not valid and not
\* refreshable); "corrupt" (reading or parsing it raises).
TokenFiles == {"absent", "valid", "expired", "norefresh", "corrupt"}

\* One way a call of get_gmail_service can end: what it returns ("service",
\* "None", or "raise" for an exception), the token file it leaves, and
\* whether it wrote that file.
Ends(res, file, wrote) == [res |-> res, file |-> file, wrote |-> wrote]

\* build("gmail", "v1", credentials=creds) returns the service or raises.
Build(file, wrote) == {Ends("service", file, wrote), Ends("raise", file, wrote)}

\* get_gmail_service without the check that credentials.json exists.
get_gmail_serviceMutant(file, credentials) ==
    IF file = "corrupt" THEN {Ends("raise", file, FALSE)}
    ELSE IF file = "valid" THEN Build(file, FALSE)
    ELSE {Ends("raise", file, FALSE)} \cup Build("valid", TRUE)

get_gmail_service(file, credentials) ==
    IF file = "corrupt" THEN {Ends("raise", file, FALSE)}
    ELSE IF file = "valid" THEN Build(file, FALSE)
    ELSE IF file = "expired"
         \* creds.refresh(Request()), then the token is written
         THEN {Ends("raise", file, FALSE)} \cup Build("valid", TRUE)
    ELSE IF ~credentials THEN {Ends("None", file, FALSE)}
    \* the OAuth flow, then the token is written
    ELSE {Ends("raise", file, FALSE)} \cup Build("valid", TRUE)

AuthFailGmail == "Failed to authenticate with Gmail. Please check credentials."

\* --------------------------------------------------- Gmail: what it answers
\* The API client raises on every answer that is not a success, so a Gmail
\* exchange is RaiseResp or a 200 with the decoded object.
MsgItems ==
    {Item([id |-> i, threadId |-> i]) : i \in MsgIds} \cup {Item([threadId |-> 1])}

ListBodies ==
    {JObj(EmptyObj)}
    \cup {JObj([messages |-> l]) : l \in SeqsUpTo(MsgItems, MaxItems)}

\* messages.get: the message, in three shapes: a decodable body, a body that
\* does not decode, a header with no 'name'.  headers and body are codes:
\* headers 1 is a well-formed list and 2 one with a header lacking 'name';
\* body 1 is decodable data and 2 data that does not decode.
MessageBodies(id) ==
    {JObj([id |-> id, threadId |-> id, snippet |-> 1,
           payload |-> Item([headers |-> 1, body |-> 1])]),
     JObj([id |-> id, payload |-> Item([body |-> 2])]),
     JObj([id |-> id, payload |-> Item([headers |-> 2, body |-> 1])])}

GetOutcomes(mb, id) ==
    {RaiseResp}
    \cup (IF id \in DOMAIN mb /\ mb[id] # "deleted"
          THEN {Resp(200, b) : b \in MessageBodies(id)} ELSE {})

\* messages.trash and messages.delete: pairs of the response and the mailbox
\* afterwards.
ModifyOutcomes(mb, ep, id) ==
    {[resp |-> RaiseResp, mailbox |-> mb]}
    \cup (IF id \in DOMAIN mb /\ mb[id] # "deleted"
          THEN {[resp |-> r,
                 mailbox |-> [mb EXCEPT ![id] =
                                 IF ep = "messages.trash" THEN "trash" ELSE "deleted"]] :
                    r \in {RaiseResp, Resp(200, JObj(EmptyObj))}}
          ELSE {})

ProfileResponses ==
    {RaiseResp, Resp(200, JObj([emailAddress |-> 1])), Resp(200, JObj(EmptyObj))}

SendOutcomes(n) ==
    {[resp |-> RaiseResp, sent |-> n]}
    \cup {[resp |-> r, sent |-> n + 1] :
              r \in {RaiseResp, Resp(200, JObj([id |-> 1])), Resp(200, JObj(EmptyObj))}}

\* -------------------------------------------------------- Gmail: the tools
\* format_message: [raised, value].  Only the loop over the headers can
\* raise; a body that does not decode is replaced by a fixed text (code 3).
format_message(message) ==
    LET payload == Get(message, "payload", Item(EmptyObj)).o
        headers == Get(payload, "headers", None)
        data == Get(payload, "body", None)
    IN  [raised |-> headers = 2,
         value |-> [id |-> Get(message, "id", None),
                    thread_id |-> Get(message, "threadId", None),
                    from |-> headers, to |-> headers,
                    subject |-> headers, date |-> headers,
                    snippet |-> Get(message, "snippet", None),
                    body |-> IF data = 2 THEN 3 ELSE data]]

GmailAuthFail(svc) ==
    IF svc = "raise" THEN Out(Raised, <<>>)
    ELSE Out(Ret("error", AuthFailGmail, 0, <<>>), <<>>)

\* list_emails up to its loop: the list request and the messages it names.
list_emails_list_run(svc, resp) ==
    LET q == <<Req("messages.list", 0, None, resp)>>
    IN  IF svc # "service" THEN [out |-> GmailAuthFail(svc), messages |-> <<>>]
        ELSE IF resp.kind = "raise" THEN [out |-> Out(Raised, q), messages |-> <<>>]
        ELSE LET messages == Get(resp.body.items[1].o, "messages", <<>>)
             IN  IF messages = <<>>
                 THEN [out |-> Out(Ret("success", "No emails found.", 0, <<>>), q),
                       messages |-> <<>>]
                 ELSE [out |-> Out(NoResult, q), messages |-> messages]

\* msg["id"] of the message the loop is at: [raised, value].
MsgId(msg) ==
    [raised |-> ~msg.isObj \/ "id" \notin DOMAIN msg.o,
     value |-> Get(msg.o, "id", None)]

\* The loop asking again for a message whose get raised.
list_emails_get_runMutant(messages, emails, resp) ==
    LET msg == messages[Len(emails) + 1]
        q == <<Req("messages.get", MsgId(msg).value, None, resp)>>
    IN  IF MsgId(msg).raised THEN [out |-> Out(Raised, <<>>), emails |-> emails]
        ELSE IF resp.kind = "raise" THEN [out |-> Out(NoResult, q), emails |-> emails]
        ELSE LET f == format_message(resp.body.items[1].o)
                 es == Append(emails, f.value)
             IN  IF f.raised THEN [out |-> Out(Raised, q), emails |-> emails]
                 ELSE IF Len(es) < Len(messages)
                 THEN [out |-> Out(NoResult, q), emails |-> es]
                 ELSE [out |-> Out(Ret("success", "Found {n} emails.", Len(es), es), q),
                       emails |-> es]

\* One turn of list_emails' loop, with the return that follows the last one.
list_emails_get_run(messages, emails, resp) ==
    LET msg == messages[Len(emails) + 1]
        q == <<Req("messages.get", MsgId(msg).value, None, resp)>>
    IN  IF MsgId(msg).raised THEN [out |-> Out(Raised, <<>>), emails |-> emails]
        ELSE IF resp.kind = "raise" THEN [out |-> Out(Raised, q), emails |-> emails]
        ELSE LET f == format_message(resp.body.items[1].o)
                 es == Append(emails, f.value)
             IN  IF f.raised THEN [out |-> Out(Raised, q), emails |-> emails]
                 ELSE IF Len(es) < Len(messages)
                 THEN [out |-> Out(NoResult, q), emails |-> es]
                 ELSE [out |-> Out(Ret("success", "Found {n} emails.", Len(es), es), q),
                       emails |-> es]

\* read_email asking once more when its get raised.
read_email_runMutant(svc, email_id, resp) ==
    LET q == <<Req("messages.get", email_id, None, resp)>>
    IN  IF svc # "service" THEN GmailAuthFail(svc)
        ELSE IF resp.kind = "raise" THEN Out(Raised, q \o q)
        ELSE LET f == format_message(resp.body.items[1].o)
             IN  IF f.raised THEN Out(Raised, q)
                 ELSE Out(Ret("success", "Email retrieved successfully", 0, <<f.value>>), q)

read_email_run(svc, email_id, resp) ==
    LET q == <<Req("messages.get", email_id, None, resp)>>
    IN  IF svc # "service" THEN GmailAuthFail(svc)
        ELSE IF resp.kind = "raise" THEN Out(Raised, q)
        ELSE LET f == format_message(resp.body.items[1].o)
             IN  IF f.raised THEN Out(Raised, q)
                 ELSE Out(Ret("success", "Email retrieved successfully", 0, <<f.value>>), q)

send_email_profile_run(svc, resp) ==
    LET q == <<Req("users.getProfile", 0, None, resp)>>
    IN  IF svc # "service" THEN GmailAuthFail(svc)
        ELSE IF resp.kind = "raise" THEN Out(Raised, q)
        ELSE Out(NoResult, q)

send_email_send_run(resp) ==
    LET q == <<Req("messages.send", 0, None, resp)>>
    IN  IF resp.kind = "raise" THEN Out(Raised, q)
        ELSE IF "id" \notin DOMAIN resp.body.items[1].o THEN Out(Raised, q)
        ELSE Out(Ret("success", "Email sent successfully", 0,
                     <<[message_id |-> resp.body.items[1].o.id]>>), q)

\* delete_email with its two branches swapped.
delete_endpointMutant(trash) ==
    IF trash THEN "messages.delete" ELSE "messages.trash"

\* The request delete_email makes for its trash argument.
delete_endpoint(trash) ==
    IF trash THEN "messages.trash" ELSE "messages.delete"

delete_email_run(svc, email_id, trash, resp) ==
    LET q == <<Req(delete_endpoint(trash), email_id, None, resp)>>
        action == IF trash THEN "moved to trash" ELSE "permanently deleted"
    IN  IF svc # "service" THEN GmailAuthFail(svc)
        ELSE IF resp.kind = "raise" THEN Out(Raised, q)
        ELSE Out(Ret("success",
                     IF action = "moved to trash"
                     THEN "Email moved to trash successfully"
                     ELSE "Email permanently deleted successfully", 0, <<>>), q)

\* ---------------------------------------------------------------- actions
\* A result is taken by its caller before any other process steps: taking it
\* touches nothing the others read, so the order makes no difference to them.
Taken == \A q \in Procs : pc[q] # "done"

\* The processes between their GET and their PUT.
Waiting == {q \in Procs : pc[q] = "put"}

\* A process may call a tool when its slot is free; unless processes run
\* side by side, process 1 is the only caller (a tool call is synchronous).
CanStart(p) ==
    /\ pc[p] = "idle"
    /\ Taken
    /\ calls < MaxCalls
    /\ concurrent \/ p = 1

\* Slot p enters tool t with arguments a; authentication returned au, the code
\* up to and including its first request did `out`, and it goes on at `next`
\* with locals l if it has not returned.
Enter(p, t, a, au, out, next, l) ==
    /\ calls' = calls + 1
    /\ tool' = [tool EXCEPT ![p] = t]
    /\ arg' = [arg EXCEPT ![p] = a]
    /\ auth' = [auth EXCEPT ![p] = au]
    /\ reqs' = [reqs EXCEPT ![p] = out.reqs]
    /\ result' = [result EXCEPT ![p] = out.result]
    /\ pc' = [pc EXCEPT ![p] = IF out.result.status = "none" THEN next ELSE "done"]
    /\ loc' = [loc EXCEPT ![p] = l]

\* Slot p's tool goes on from one request to its next.
Continue(p, out, next, l) ==
    /\ reqs' = [reqs EXCEPT ![p] = @ \o out.reqs]
    /\ result' = [result EXCEPT ![p] = out.result]
    /\ pc' = [pc EXCEPT ![p] = IF out.result.status = "none" THEN next ELSE "done"]
    /\ loc' = [loc EXCEPT ![p] = l]
    /\ UNCHANGED <<calls, tool, arg, auth>>

\* What authentication came to: "ok", "none" (it returned None) or "raised",
\* and whether it wrote the token file.
NoAuth == [res |-> "", wrote |-> FALSE]
HeadersAuth(headers) == [res |-> IF headers.ok THEN "ok" ELSE "none", wrote |-> FALSE]
ServiceAuth(a) ==
    [res |-> IF a.res = "service" THEN "ok" ELSE IF a.res = "None" THEN "none" ELSE "raised",
     wrote |-> a.wrote]

list_repositories(p) ==
    /\ CanStart(p)
    /\ LET headers == get_github_headers(githubFile)
       IN  \E resp \in (IF headers.ok THEN ListResponses(RepoObjs) ELSE {RaiseResp}) :
               Enter(p, "list_repositories", NoArg, HeadersAuth(headers),
                     Catch(list_repositories_run(headers, resp),
                           "Error listing repositories: {e}"),
                     "done", NoLoc)
    /\ UNCHANGED <<localFiles, remote, concurrent>>

create_repository(p) ==
    /\ CanStart(p)
    /\ \E name \in RepoNames :
         LET headers == get_github_headers(githubFile)
         IN  \E o \in (IF headers.ok THEN PostOutcomes(repos, name)
                       ELSE {[resp |-> RaiseResp, repos |-> repos]}) :
               LET out == Catch(create_repository_run(headers, name, o.resp),
                                "Error creating repository: {e}")
               IN  /\ Enter(p, "create_repository", [NoArg EXCEPT !.id = name],
                            HeadersAuth(headers), out, "done", NoLoc)
                   /\ repos' = IF out.reqs # <<>> THEN o.repos ELSE repos
    /\ UNCHANGED <<localFiles, mailbox, sent, remoteFile, changed, concurrent>>

scan_repository(p) ==
    /\ CanStart(p)
    /\ \E path \in Paths :
         LET headers == get_github_headers(githubFile)
         IN  \E resp \in (IF headers.ok THEN ScanResponses ELSE {RaiseResp}) :
               Enter(p, "scan_repository", [NoArg EXCEPT !.id = path],
                     HeadersAuth(headers),
                     Catch(scan_repository_run(headers, path, resp),
                           "Error scanning repository: {e}"),
                     "done", NoLoc)
    /\ UNCHANGED <<localFiles, remote, concurrent>>

push_to_repository(p) ==
    /\ CanStart(p)
    /\ \E content \in Contents :
         LET headers == get_github_headers(githubFile)
         IN  \E resp \in (IF headers.ok THEN ContentsGetResponses(remoteFile)
                          ELSE {RaiseResp}) :
               LET r == push_get_run(headers, resp)
               IN  Enter(p, "push_to_repository", [NoArg EXCEPT !.id = content],
                         HeadersAuth(headers),
                         Catch(r.out, "Error pushing to repository: {e}"),
                         "put", [NoLoc EXCEPT !.sha = r.sha])
    /\ changed' = changed \ {p}
    /\ UNCHANGED <<localFiles, mailbox, sent, repos, remoteFile, concurrent>>

push_to_repository_put(p) ==
    /\ pc[p] = "put"
    /\ Taken
    /\ \E o \in PutOutcomes(remoteFile, PutSha(loc[p].sha), arg[p].id) :
         /\ Continue(p, Catch(push_put_run(loc[p].sha, o.resp),
                              "Error pushing to repository: {e}"),
                     "done", loc[p])
         /\ remoteFile' = o.file
         /\ changed' = IF o.file # remoteFile THEN changed \cup (Waiting \ {p}) ELSE changed
    /\ UNCHANGED <<localFiles, mailbox, sent, repos, concurrent>>

list_emails(p) ==
    /\ CanStart(p)
    /\ \E a \in get_gmail_service(tokenFile, credentialsJson) :
         /\ tokenFile' = a.file
         /\ \E resp \in (IF a.res = "service"
                         THEN {RaiseResp} \cup {Resp(200, b) : b \in ListBodies}
                         ELSE {RaiseResp}) :
              LET r == list_emails_list_run(a.res, resp)
              IN  Enter(p, "list_emails", NoArg, ServiceAuth(a),
                        Catch(r.out, "Error listing emails: {e}"),
                        "get", [NoLoc EXCEPT !.messages = r.messages])
    /\ UNCHANGED <<credentialsJson, githubFile, remote, concurrent>>

list_emails_get(p) ==
    /\ pc[p] = "get"
    /\ Taken
    /\ LET id == MsgId(loc[p].messages[Len(loc[p].emails) + 1])
       IN  \E resp \in (IF id.raised THEN {RaiseResp} ELSE GetOutcomes(mailbox, id.value)) :
             LET r == list_emails_get_run(loc[p].messages, loc[p].emails, resp)
             IN  Continue(p, Catch(r.out, "Error listing emails: {e}"),
                          "get", [loc[p] EXCEPT !.emails = r.emails])
    /\ UNCHANGED <<localFiles, remote, concurrent>>

read_email(p) ==
    /\ CanStart(p)
    /\ \E email_id \in MsgIds, a \in get_gmail_service(tokenFile, credentialsJson) :
         /\ tokenFile' = a.file
         /\ \E resp \in (IF a.res = "service" THEN GetOutcomes(mailbox, email_id)
                         ELSE {RaiseResp}) :
              Enter(p, "read_email", [NoArg EXCEPT !.id = email_id], ServiceAuth(a),
                    Catch(read_email_run(a.res, email_id, resp),
                          "Error reading email: {e}"),
                    "done", NoLoc)
    /\ UNCHANGED <<credentialsJson, githubFile, remote, concurrent>>

send_email(p) ==
    /\ CanStart(p)
    /\ \E a \in get_gmail_service(tokenFile, credentialsJson) :
         /\ tokenFile' = a.file
         /\ \E resp \in (IF a.res = "service" THEN ProfileResponses ELSE {RaiseResp}) :
              Enter(p, "send_email", NoArg, ServiceAuth(a),
                    Catch(send_email_profile_run(a.res, resp),
                          "Error sending email: {e}"),
                    "send", NoLoc)
    /\ UNCHANGED <<credentialsJson, githubFile, remote, concurrent>>

send_email_send(p) ==
    /\ pc[p] = "send"
    /\ Taken
    /\ \E o \in SendOutcomes(sent) :
         /\ Continue(p, Catch(send_email_send_run(o.resp), "Error sending email: {e}"),
                     "done", loc[p])
         /\ sent' = o.sent
    /\ UNCHANGED <<localFiles, mailbox, repos, remoteFile, changed, concurrent>>

delete_email(p) ==
    /\ CanStart(p)
    /\ \E email_id \in MsgIds, trash \in BOOLEAN,
          a \in get_gmail_service(tokenFile, credentialsJson) :
         /\ tokenFile' = a.file
         /\ \E o \in (IF a.res = "service"
                      THEN ModifyOutcomes(mailbox, delete_endpoint(trash), email_id)
                      ELSE {[resp |-> RaiseResp, mailbox |-> mailbox]}) :
              LET out == Catch(delete_email_run(a.res, email_id, trash, o.resp),
                               "Error deleting email: {e}")
              IN  /\ Enter(p, "delete_email", [id |-> email_id, trash |-> trash],
                           ServiceAuth(a), out, "done", NoLoc)
                  /\ mailbox' = IF out.reqs # <<>> THEN o.mailbox ELSE mailbox
    /\ UNCHANGED <<credentialsJson, githubFile, sent, repos, remoteFile, changed,
                   concurrent>>

\* The caller takes the result; the slot is free again.
Return(p) ==
    /\ pc[p] = "done"
    /\ pc' = [pc EXCEPT ![p] = "idle"]
    /\ tool' = [tool EXCEPT ![p] = ""]
    /\ arg' = [arg EXCEPT ![p] = NoArg]
    /\ loc' = [loc EXCEPT ![p] = NoLoc]
    /\ auth' = [auth EXCEPT ![p] = NoAuth]
    /\ reqs' = [reqs EXCEPT ![p] = <<>>]
    /\ result' = [result EXCEPT ![p] = NoResult]
    /\ changed' = changed \ {p}
    /\ UNCHANGED <<localFiles, mailbox, sent, repos, remoteFile, concurrent, calls>>

\* setup_github_auth.py: the credentials typed in are saved when GitHub
\* answers 200 to them.
setup_oauth ==
    /\ githubFile.kind # "json"
    /\ \E username \in {None, 1}, token \in {None, 1}, ok \in BOOLEAN :
         githubFile' = IF ok THEN [kind |-> "json", username |-> username, token |-> token]
                       ELSE githubFile
    /\ UNCHANGED <<tokenFile, credentialsJson, remote, concurrent, calls,
                   tool, arg, pc, loc, auth, reqs, result>>

\* Time passes: a valid access token expires.
TokenExpires ==
    /\ tokenFile = "valid"
    /\ tokenFile' = "expired"
    /\ UNCHANGED <<credentialsJson, githubFile, remote, concurrent, calls,
                   tool, arg, pc, loc, auth, reqs, result>>

\* Someone else writes or removes the repository file while a push is
\* between its GET and its PUT.
ExternalWrite ==
    /\ Waiting # {}
    /\ Taken
    /\ \E f \in (Contents \cup {NoFile}) \ {remoteFile} : remoteFile' = f
    /\ changed' = changed \cup Waiting
    /\ UNCHANGED <<localFiles, mailbox, sent, repos, concurrent, calls,
                   tool, arg, pc, loc, auth, reqs, result>>

\* --------------------------------------------------------- specifications
InitSlots ==
    /\ calls = 0
    /\ tool = [p \in Procs |-> ""]
    /\ arg = [p \in Procs |-> NoArg]
    /\ pc = [p \in Procs |-> "idle"]
    /\ loc = [p \in Procs |-> NoLoc]
    /\ auth = [p \in Procs |-> NoAuth]
    /\ reqs = [p \in Procs |-> <<>>]
    /\ result = [p \in Procs |-> NoResult]

InitRemote ==
    /\ mailbox = [i \in MsgIds |-> "inbox"]
    /\ sent = 0
    /\ repos = {}
    /\ remoteFile = NoFile
    /\ changed = {}

\* Synchronous use: one tool call at a time, any of the eight tools.  The
\* Gmail files start in any state beside working GitHub credentials, and the
\* GitHub credentials in any state beside a valid Gmail token.
Init ==
    /\ \/ /\ tokenFile \in TokenFiles
          /\ credentialsJson \in BOOLEAN
          /\ githubFile = [kind |-> "json", username |-> 1, token |-> 1]
       \/ /\ tokenFile = "valid"
          /\ credentialsJson = TRUE
          /\ githubFile \in GithubFiles
    /\ concurrent = FALSE
    /\ InitRemote
    /\ InitSlots

Next ==
    \/ \E p \in Procs : list_emails(p)
    \/ \E p \in Procs : list_emails_get(p)
    \/ \E p \in Procs : read_email(p)
    \/ \E p \in Procs : send_email(p)
    \/ \E p \in Procs : send_email_send(p)
    \/ \E p \in Procs : delete_email(p)
    \/ \E p \in Procs : list_repositories(p)
    \/ \E p \in Procs : create_repository(p)
    \/ \E p \in Procs : scan_repository(p)
    \/ \E p \in Procs : push_to_repository(p)
    \/ \E p \in Procs : push_to_repository_put(p)
    \/ \E p \in Procs : Return(p)
    \/ setup_oauth
    \/ TokenExpires
    \/ ExternalWrite

Spec == Init /\ [][Next]_vars

\* Several processes push to the same file of the same repository at once.
InitPush ==
    /\ tokenFile = "absent"
    /\ credentialsJson = FALSE
    /\ githubFile \in GithubFiles
    /\ concurrent = TRUE
    /\ InitRemote
    /\ InitSlots

NextPush ==
    \/ \E p \in Procs : push_to_repository(p)
    \/ \E p \in Procs : push_to_repository_put(p)
    \/ \E p \in Procs : Return(p)
    \/ ExternalWrite

SpecPush == InitPush /\ [][NextPush]_vars

TypeOK ==
    /\ tokenFile \in TokenFiles
    /\ githubFile \in GithubFiles
    /\ calls \in 0..MaxCalls
    /\ \A p \in Procs : pc[p] \in {"idle", "get", "send", "put", "done"}

\* ------------------------------------------------------------- the claims
Done(p) == pc[p] = "done"
Entering(p) == pc[p] = "idle" /\ pc'[p] # "idle"
ToolStep(p) == pc[p] # "done" /\ (pc'[p] # pc[p] \/ reqs'[p] # reqs[p])
LastReq(p) == reqs[p][Len(reqs[p])]
Answered(r) == r.resp.kind = "resp"
Ok2xx(r) == Answered(r) /\ r.resp.status \in {200, 201}
Failed(r) == ~Ok2xx(r)

\* The messages the list request of list_emails named.
Listed(p) ==
    IF reqs[p] # <<>> /\ Answered(reqs[p][1])
    THEN Get(reqs[p][1].resp.body.items[1].o, "messages", <<>>)
    ELSE <<>>

\* C1: every tool returns a dictionary whose status is "success" or "error"
\* and that carries a message, whatever authentication and the API did; no
\* exception leaves a tool.
C1_StatusAndMessage ==
    \A p \in Procs :
        /\ result[p].status \in {"none", "success", "error"}
        /\ Done(p) <=> result[p].status \in {"success", "error"}
        /\ Done(p) => result[p].message # ""

C1_Witness ==
    \E p \in Procs :
        /\ Done(p) /\ reqs[p] # <<>>
        /\ LastReq(p).resp.kind = "raise"
        /\ result[p].status = "error"

\* C2 as stated: one invocation issues exactly one request once it has
\* authenticated.
C2_SingleCall ==
    \A p \in Procs : Done(p) /\ auth[p].res = "ok" => Len(reqs[p]) = 1

SingleCallTools ==
    {"read_email", "delete_email", "list_repositories", "create_repository",
     "scan_repository"}

EndpointsOf(t) ==
    CASE t = "read_email" -> {"messages.get"}
      [] t = "delete_email" -> {"messages.trash", "messages.delete"}
      [] t = "list_repositories" -> {"GET /user/repos"}
      [] t = "create_repository" -> {"POST /user/repos"}
      [] t = "scan_repository" -> {"GET contents"}
      [] OTHER -> {}

\* C2 amended: after authentication, read_email, delete_email,
\* list_repositories, create_repository and scan_repository issue exactly one
\* request; list_emails issues one list request and then at most one get per
\* listed message; send_email issues getProfile and then at most one send;
\* push_to_repository issues a GET and then at most one PUT.
C2_Amended ==
    \A p \in Procs :
        Done(p) /\ auth[p].res = "ok" =>
            LET n == Len(reqs[p])
                follows(first, rest, most) ==
                    /\ reqs[p][1].ep = first
                    /\ n <= most
                    /\ \A i \in 2..n : reqs[p][i].ep = rest
            IN  /\ n >= 1
                /\ tool[p] \in SingleCallTools =>
                       n = 1 /\ reqs[p][1].ep \in EndpointsOf(tool[p])
                /\ tool[p] = "list_emails" =>
                       follows("messages.list", "messages.get", 1 + Len(Listed(p)))
                /\ tool[p] = "send_email" =>
                       follows("users.getProfile", "messages.send", 2)
                /\ tool[p] = "push_to_repository" =>
                       follows("GET contents", "PUT contents", 2)

C2_Witness ==
    \E p \in Procs :
        /\ Done(p) /\ tool[p] = "send_email" /\ auth[p].res = "ok"
        /\ Len(reqs[p]) = 2 /\ result[p].status = "success"

MaxReqs(p) ==
    CASE tool[p] = "list_emails" -> 1 + Len(Listed(p))
      [] tool[p] \in {"send_email", "push_to_repository"} -> 2
      [] tool[p] = "" -> 0
      [] OTHER -> 1

\* C3: no request is issued again after it failed, nothing is requested after
\* a request raised, and an invocation issues at most one list request plus
\* one get per listed message (list_emails), two requests (send_email,
\* push_to_repository) or one (every other tool).
C3_NoRetryBounded ==
    \A p \in Procs :
        /\ Len(reqs[p]) <= MaxReqs(p)
        /\ \A i \in 1..(Len(reqs[p]) - 1) : reqs[p][i].resp.kind # "raise"
        /\ \A i, j \in DOMAIN reqs[p] :
               i < j /\ Failed(reqs[p][i]) =>
                   ~(reqs[p][j].ep = reqs[p][i].ep /\ reqs[p][j].id = reqs[p][i].id)

C3_Witness ==
    \E p \in Procs :
        /\ Done(p) /\ tool[p] = "list_emails"
        /\ Len(reqs[p]) = 3 /\ LastReq(p).resp.kind = "raise"
        /\ result[p].status = "error"

Answered200(p) ==
    /\ Done(p) /\ tool[p] \in {"list_repositories", "scan_repository"}
    /\ Len(reqs[p]) = 1 /\ Answered(reqs[p][1]) /\ reqs[p][1].resp.status = 200

\* Entry e of the result is item it of the response, reshaped.
Reshaped(t, e, it) ==
    /\ it.isObj
    /\ e.name = Get(it.o, "name", None)
    /\ e.url = Get(it.o, "html_url", None)
    /\ t = "list_repositories" =>
           e.id = Get(it.o, "id", None) /\ e.private = Get(it.o, "private", None)
    /\ t = "scan_repository" =>
           e.path = Get(it.o, "path", None) /\ e.type = Get(it.o, "type", None)

FoundMessage(t) ==
    IF t = "list_repositories" THEN "Found {n} repositories."
    ELSE "Found {n} items in repository."

\* The result is a success listing every item of the body, in order.
ListsAll(p, b) ==
    /\ result[p].status = "success"
    /\ result[p].message = FoundMessage(tool[p])
    /\ result[p].n = Len(b.items)
    /\ Len(result[p].payload) = Len(b.items)
    /\ \A i \in 1..Len(b.items) : Reshaped(tool[p], result[p].payload[i], b.items[i])

SingleAndEmpty(p, b) ==
    /\ tool[p] = "scan_repository" /\ b.t = "object" /\ DOMAIN b.items[1].o # {} =>
           result[p].status = "success" /\ Len(result[p].payload) = 1
    /\ (b.t = "list" /\ b.items = <<>>) \/ (b.t = "object" /\ DOMAIN b.items[1].o = {}) =>
           result[p].status = "success" /\ result[p].payload = <<>>

\* C5 as stated: a 200 with a non-empty JSON list gives a success with one
\* reshaped entry per item, in order, and the count in the message; a single
\* object gives scan_repository one entry; an empty response an empty list.
C5_OnePerItem ==
    \A p \in Procs :
        Answered200(p) =>
            LET b == reqs[p][1].resp.body
            IN  /\ b.t = "list" /\ b.items # <<>> => ListsAll(p, b)
                /\ SingleAndEmpty(p, b)

\* C5 amended: the same for a non-empty JSON list whose items are all JSON
\* objects; a list with an item that is no object gives status "error" and an
\* empty list.
C5_Amended ==
    \A p \in Procs :
        Answered200(p) =>
            LET b == reqs[p][1].resp.body
                objects == \A i \in 1..Len(b.items) : b.items[i].isObj
            IN  /\ b.t = "list" /\ b.items # <<>> /\ objects => ListsAll(p, b)
                /\ b.t = "list" /\ ~objects =>
                       result[p].status = "error" /\ result[p].payload = <<>>
                /\ SingleAndEmpty(p, b)

C5_Witness ==
    \E p \in Procs :
        /\ Answered200(p) /\ tool[p] = "list_repositories"
        /\ reqs[p][1].resp.body.t = "list"
        /\ Len(result[p].payload) = 2
        /\ result[p].payload[1] # result[p].payload[2]

\* The credentials file is missing, unreadable, or has an empty username or
\* token.
BadCreds(file) == file.kind # "json" \/ file.username = None \/ file.token = None

RemoteUntouched ==
    /\ mailbox = [i \in MsgIds |-> "inbox"]
    /\ sent = 0 /\ repos = {} /\ remoteFile = NoFile

\* C6: when authentication fails (get_gmail_service returns None; the GitHub
\* credentials file is missing, unreadable or has an empty username or token)
\* the tool returns status "error" with the "Failed to authenticate" message
\* and has issued no request, so the remote state is as it was.
C6_AuthFirst ==
    \A p \in Procs :
        /\ tool[p] \in GithubTools /\ BadCreds(githubFile) => auth[p].res = "none"
        /\ auth[p].res = "none" =>
               /\ Done(p) /\ reqs[p] = <<>>
               /\ result[p].status = "error"
               /\ result[p].message =
                      IF tool[p] \in GmailTools THEN AuthFailGmail ELSE AuthFailGithub
               /\ calls = 1 => RemoteUntouched

C6_Witness ==
    \E p \in Procs :
        /\ auth[p].res = "none" /\ tool[p] = "push_to_repository"
        /\ githubFile.kind = "json" /\ githubFile.username # None
        /\ githubFile.token = None

\* C7: delete_email issues the trash request and never the delete request when
\* trash is true, the delete request and never trash when it is false; it
\* returns "success" only if that one request came back, and the message
\* names what was done.
C7_TrashOrDelete ==
    \A p \in Procs :
        Done(p) /\ tool[p] = "delete_email" =>
            LET want == IF arg[p].trash THEN "messages.trash" ELSE "messages.delete"
            IN  /\ Len(reqs[p]) <= 1
                /\ \A i \in DOMAIN reqs[p] :
                       reqs[p][i].ep = want /\ reqs[p][i].id = arg[p].id
                /\ result[p].status = "success" =>
                       /\ Len(reqs[p]) = 1 /\ Answered(reqs[p][1])
                       /\ result[p].message =
                              IF arg[p].trash THEN "Email moved to trash successfully"
                              ELSE "Email permanently deleted successfully"
                /\ calls = 1 =>
                       \A m \in MsgIds :
                           /\ mailbox[m] = "deleted" => ~arg[p].trash /\ m = arg[p].id
                           /\ mailbox[m] = "trash" => arg[p].trash /\ m = arg[p].id

C7_Witness ==
    \E p \in Procs :
        /\ Done(p) /\ tool[p] = "delete_email" /\ ~arg[p].trash
        /\ result[p].status = "success" /\ mailbox[arg[p].id] = "deleted"

\* A push_to_repository that authenticated and has returned.
Pushed(p) == Done(p) /\ tool[p] = "push_to_repository" /\ auth[p].res = "ok"

\* The sha the GET of slot p showed: that of a 200 whose body is an object.
ObservedSha(p) ==
    LET g == reqs[p][1].resp
    IN  IF g.kind = "resp" /\ g.status = 200 /\ g.body.t = "object"
        THEN Get(g.body.items[1].o, "sha", None) ELSE None

PutIssued(p) == Len(reqs[p]) = 2 /\ reqs[p][2].ep = "PUT contents"

\* The PUT carries the sha exactly when the GET answered 200 with one.
ShaIffSeen(p) ==
    PutIssued(p) =>
        /\ reqs[p][2].sha # None <=>
               (reqs[p][1].resp.status = 200 /\ ObservedSha(p) # None)
        /\ reqs[p][2].sha # None => reqs[p][2].sha = ObservedSha(p)

\* C8 as stated: the GET comes first and the PUT follows whatever status the
\* GET returned; the PUT carries a sha iff the GET answered 200 with a
\* non-empty sha; the result is "success" iff the PUT answered 200 or 201.
C8_GetThenPut ==
    \A p \in Procs :
        Pushed(p) =>
            /\ reqs[p][1].ep = "GET contents"
            /\ Answered(reqs[p][1]) => PutIssued(p)
            /\ ShaIffSeen(p)
            /\ result[p].status = "success" <=> (PutIssued(p) /\ Ok2xx(reqs[p][2]))

\* The body of a PUT's answer is a JSON object whose "commit", when it has
\* one, is an object.
CommitReadable(b) ==
    b.t = "object" /\ Get(b.items[1].o, "commit", Item(EmptyObj)).isObj

\* C8 amended: the PUT follows the GET exactly when the GET was answered with
\* a status other than 200, or with 200 and a JSON object (a 200 with any
\* other body ends the push with "error" and no PUT); the sha is carried as
\* stated; the result is "success" exactly when the PUT answered 200 or 201
\* with a JSON object whose "commit" is absent or an object.
C8_Amended ==
    \A p \in Procs :
        Pushed(p) =>
            LET g == reqs[p][1].resp
            IN  /\ reqs[p][1].ep = "GET contents"
                /\ PutIssued(p) <=>
                       (g.kind = "resp" /\ (g.status # 200 \/ g.body.t = "object"))
                /\ ~PutIssued(p) => Len(reqs[p]) = 1 /\ result[p].status = "error"
                /\ ShaIffSeen(p)
                /\ result[p].status = "success" <=>
                       /\ PutIssued(p) /\ Ok2xx(reqs[p][2])
                       /\ CommitReadable(reqs[p][2].resp.body)

C8_Witness ==
    \E p \in Procs :
        /\ Pushed(p) /\ PutIssued(p) /\ reqs[p][2].sha # None
        /\ reqs[p][2].resp.status = 200 /\ result[p].status = "success"
        /\ remoteFile = arg[p].id

CurrentSha == IF remoteFile = NoFile THEN None ELSE ShaOf(remoteFile)
PutStep(p) == pc[p] = "put" /\ pc'[p] = "done"

\* The PUT of this step was turned down and the push says so.
Rejected(p) ==
    /\ remoteFile' = remoteFile
    /\ result'[p].status = "error"
    /\ ~Ok2xx(reqs'[p][Len(reqs'[p])])

\* C9 as stated: with a remote that accepts a PUT only for the file's current
\* sha, the PUT of a push is rejected whenever the file was changed, by
\* another push or by anyone, between that push's GET and its PUT; the push
\* returns "error" and the file keeps the accepted write.
C9_RejectedIfChanged ==
    [][\A p \in Procs : PutStep(p) /\ p \in changed => Rejected(p)]_vars

\* C9 amended: the PUT of a push is rejected, the push returns "error" and the
\* file is left as it is whenever the file's sha at the PUT is not the sha the
\* push's GET showed (none, for a file it did not see); a file changed and
\* changed back to the content the GET saw has that sha again and is
\* overwritten.
C9_Amended ==
    [][\A p \in Procs : PutStep(p) /\ ObservedSha(p) # CurrentSha => Rejected(p)]_vars

C9_Witness ==
    \E p \in Procs :
        /\ Done(p) /\ p \in changed /\ PutIssued(p)
        /\ reqs[p][2].sha # None /\ reqs[p][2].resp.status = 409
        /\ result[p].status = "error"
        /\ \E q \in Procs \ {p} : pc[q] = "idle" /\ calls = 2

====
